---- MODULE Spec2Model ----
(***************************************************************************)
(* Model of the photometric calibration engine of SwiftPhotom/uvot.py:     *)
(* sort_filters, extract_photometry and output_mags.                       *)
(*                                                                         *)
(* Numbers.  A count rate is an exact rational <<n, d>> with d > 0 and     *)
(* gcd(n, d) = 1.  The three IEEE values a numpy division by zero yields   *)
(* are <<1, 0>> (inf), <<-1, 0>> (-inf) and <<0, 0>> (nan).  An error, a   *)
(* significance and every other value that passes through np.sqrt is kept  *)
(* as a "surd" [ssq |-> q]: the real number x with x*|x| = q.  x |-> x*|x| *)
(* is a strictly increasing bijection of the reals, so products, quotients *)
(* and comparisons of such values with rationals are exact.  np.log10 is   *)
(* kept symbolic (its argument is recorded), with its nan and -inf cases.  *)
(***************************************************************************)
EXTENDS Integers, Sequences, FiniteSets, TLC

\* ------------------------------------------------------------ bounds
\* Largest number of rows of the science photometry table.
MaxSci == 2
\* Largest number of rows of the template photometry table.
MaxTempl == 2

\* ------------------------------------------------------------ arithmetic
Abs(n) == IF n < 0 THEN -n ELSE n

Sign(n) == IF n < 0 THEN -1 ELSE IF n > 0 THEN 1 ELSE 0

RECURSIVE GCD(_, _)
GCD(a, b) == IF b = 0 THEN a ELSE GCD(b, a % b)

\* The rational n/d (d # 0) in lowest terms with a positive denominator.
Rat(n, d) ==
  LET g == GCD(Abs(n), Abs(d))
      s == IF d < 0 THEN -1 ELSE 1
  IN  <<(s * n) \div g, (s * d) \div g>>

I(n) == <<n, 1>>

Inf == <<1, 0>>
NaN == <<0, 0>>

IsFinite(a) == a[2] # 0

RAdd(a, b) == Rat(a[1] * b[2] + b[1] * a[2], a[2] * b[2])
RSub(a, b) == Rat(a[1] * b[2] - b[1] * a[2], a[2] * b[2])
RMul(a, b) == Rat(a[1] * b[1], a[2] * b[2])
RAbs(a) == <<Abs(a[1]), a[2]>>
RSq(a) == RMul(a, a)
\* a * |a|, the signed square of a.
RSsq(a) == RMul(a, RAbs(a))
RLe(a, b) == a[1] * b[2] <= b[1] * a[2]
RLt(a, b) == a[1] * b[2] < b[1] * a[2]

\* numpy's a / b on finite floats: x/0 is inf, -inf or nan (a warning, no exception).
NpDiv(a, b) == IF b[1] = 0 THEN <<Sign(a[1]), 0>> ELSE Rat(a[1] * b[2], a[2] * b[1])

\* A rational as a surd.
Exact(r) == [ssq |-> RSsq(r)]
\* np.sqrt(v) of a rational v: nan for a negative argument.
NpSqrt(v) == IF v[1] < 0 THEN [ssq |-> NaN] ELSE [ssq |-> v]
\* s ** 2
SSquare(s) == RAbs(s.ssq)
\* s * r and r / s, s a finite surd and r a rational.
SMulR(s, r) == [ssq |-> RMul(s.ssq, RSsq(r))]
RDivS(r, s) == [ssq |-> NpDiv(RSsq(r), s.ssq)]
SDivR(s, r) == [ssq |-> NpDiv(s.ssq, RSsq(r))]
\* s >= r as IEEE compares it: every comparison with nan is False.
SGeR(s, r) ==
  IF s.ssq = NaN THEN FALSE
  ELSE IF ~IsFinite(s.ssq) THEN s.ssq[1] > 0
  ELSE RLe(RSsq(r), s.ssq)

SumSeq(s) ==
  LET RECURSIVE sum(_)
      sum(k) == IF k = 0 THEN I(0) ELSE RAdd(sum(k - 1), s[k])
  IN  sum(Len(s))

\* ------------------------------------------------------------ filter catalog
\* ZP[f] = <<zero point, zero point error>>, in hundredths of a magnitude.
ZP == [V |-> <<1788, 1>>, B |-> <<1898, 2>>, U |-> <<1936, 2>>,
       UVW1 |-> <<1895, 3>>, UVM2 |-> <<1854, 3>>, UVW2 |-> <<1911, 3>>]

\* Vega -> AB offsets, in hundredths of a magnitude.
Vega == [V |-> -1, B |-> -13, U |-> 102, UVW1 |-> 151, UVM2 |-> 169, UVW2 |-> 173]

\* jd reference used by swift
mjdref == 51910

full_filter_list == <<"V", "B", "U", "UVW1", "UVM2", "UVW2">>

Range(s) == {s[k] : k \in 1..Len(s)}

\* str.upper() on the filter tokens of the model.
Upper(tok) ==
  CASE tok = "b" -> "B"
    [] tok = "v" -> "V"
    [] tok = "uvw1" -> "UVW1"
    [] tok = "all" -> "ALL"
    [] tok = "white" -> "WHITE"
    [] OTHER -> tok

\* The loop without the skip: every name is kept.
KeepEveryName(toks) == [n \in 1..Len(toks) |-> Upper(toks[n])]

\* The loop of sort_filters over _filt_list.split(','): unrecognized names are
\* skipped with a warning, the others are kept upper-cased, in order.
RECURSIVE KeepRecognized(_)
KeepRecognized(toks) ==
  IF toks = <<>> THEN <<>>
  ELSE IF Upper(Head(toks)) \notin Range(full_filter_list)
       THEN KeepRecognized(Tail(toks))
       ELSE <<Upper(Head(toks))>> \o KeepRecognized(Tail(toks))

\* sort_filters(_filt_list).  The argument is a keyword or the list of the
\* comma-separated tokens; the result is [exc, out].
sort_filters(fl) ==
  IF fl = <<"ALL">> THEN [exc |-> "none", out |-> full_filter_list]
  ELSE IF fl = <<"OPT">> THEN [exc |-> "none", out |-> <<"V", "B", "U">>]
  ELSE IF fl = <<"UV">> THEN [exc |-> "none", out |-> <<"UVW1", "UVM2", "UVW2">>]
  ELSE LET out_filter_list == KeepRecognized(fl)
       IN  IF Len(out_filter_list) = 0
           THEN [exc |-> "FilterError", out |-> <<>>]
           ELSE [exc |-> "none", out |-> out_filter_list]

\* ------------------------------------------------------------ inputs
\* One row of the table uvotmaghist writes (hdu[1].data); TSTART and TSTOP in seconds.
Row(sc, r3, e3, r5, e5, c5, b, be, area, apf, apfe, t0, t1) ==
  [SENSCORR_FACTOR |-> sc, COI_SRC_RATE |-> r3, COI_SRC_RATE_ERR |-> e3,
   RAW_STD_RATE |-> r5, RAW_STD_RATE_ERR |-> e5, COI_STD_FACTOR |-> c5,
   COI_BKG_RATE |-> b, COI_BKG_RATE_ERR |-> be, STD_AREA |-> area,
   AP_FACTOR |-> apf, AP_FACTOR_ERR |-> apfe, TSTART |-> t0, TSTOP |-> t1]

\* Science rows: a source at exactly 3 sigma in the user aperture, at two
\* epochs, and a row of zero net rate sharing the later epoch.
ScienceRows ==
  { Row(1, 3, 2, 4, 1, 2, 1, 1, 2, 2, 1, 86400, 86400),
    Row(2, 0, -1, 1, 1, 1, 1, 1, 1, 2, 2, 86400, 86400),
    Row(1, 3, 2, 4, 1, 2, 1, 1, 2, 2, 1, 0, 43200) }

TemplateRows ==
  { Row(1, 1, 1, 2, 1, 1, 1, 1, 1, 1, 1, 0, 0),
    Row(1, 3, 2, 4, 1, 2, 1, 1, 2, 2, 1, 0, 0) }

SeqsUpTo(S, n) == UNION {[1..m -> S] : m \in 1..n}

\* The FILTER column of a product table holds one value, and the template
\* product is of the same filter: create_product builds one product file per
\* filter.
TableFilters == {"B", "WHITE"}

NoFile == [none |-> TRUE, FILTER |-> "", rows |-> <<>>]

File(f, rows) == [none |-> FALSE, FILTER |-> f, rows |-> rows]

ApertureSizes == {"3", "5"}
DetLimits == {0, 3}

\* The --filter argument, split at the commas.
FilterRequests ==
  { <<"ALL">>, <<"b", "white">>, <<"white">>, <<"all">> }

\* ------------------------------------------------------------ state
VARIABLES
  args,      \* the arguments of extract_photometry: _phot_file, _ab, _det_limit, _ap_size, _templ_file
  filt_list, \* the argument given to sort_filters
  filters,   \* the list sort_filters returned
  pc,        \* position in the run
  exc,       \* the exception that ended the run, or "none"
  i,         \* index of the file loop of extract_photometry (0 template, 1 science)
  k,         \* index of the aperture loop (1 user aperture data, 2 five-arcsecond data)
  j,         \* index of the row loop (1-based)
  template,  \* the local template: 0, 1, or -1 while it is unbound
  filter,    \* the local filter
  BCR_temp,  \* dict label -> weighted mean template rate
  BCRe_temp, \* dict label -> its error
  rates,     \* the locals S3BCR, S3BCRe, S5BCR, S5BCRe of the current file
  sub,       \* the locals mjd, BCGR, BCGRe, BCGAR, BCGARe, BCGARs, BCGAMl of the current aperture
  mag,       \* dict label -> list of records
  files,     \* the JSON files written by output_mags: name -> list of records
  report     \* the lines printed by output_mags

vars == <<args, filt_list, filters, pc, exc, i, k, j, template, filter, BCR_temp, BCRe_temp,
          rates, sub, mag, files, report>>

user_ap == args._ap_size \o "_arcsec"

Labels == {user_ap, "5_arcsec"}

mag_sys == IF args._ab = 1 THEN "AB" ELSE "Vega"

Vega_corr(f) == IF args._ab = 1 THEN 0 ELSE Vega[f]

\* for i,file in enumerate([_templ_file,_phot_file])
FileAt(n) == IF n = 0 THEN args._templ_file ELSE args._phot_file

NoRates == [S3BCR |-> <<>>, S3BCRe |-> <<>>, S5BCR |-> <<>>, S5BCRe |-> <<>>]

NoSub == [mjd |-> <<>>, BCGR |-> <<>>, BCGRe |-> <<>>, BCGAR |-> <<>>,
          BCGARe |-> <<>>, BCGARs |-> <<>>, BCGAMl |-> <<>>]

\* The runs on product tables of filter f.
RunArgs(f) ==
  { [_phot_file |-> File(f, sci), _ab |-> ab, _det_limit |-> det,
     _ap_size |-> ap, _templ_file |-> tf] :
    sci \in SeqsUpTo(ScienceRows, MaxSci),
    ab \in {0, 1}, det \in DetLimits, ap \in ApertureSizes,
    tf \in {NoFile} \cup {File(f, t) : t \in SeqsUpTo(TemplateRows, MaxTempl)} }

Init ==
  /\ args \in UNION {RunArgs(f) : f \in TableFilters}
  /\ filt_list = <<>>
  /\ filters = <<>>
  /\ pc = "start"
  /\ exc = "none"
  /\ i = 0 /\ k = 1 /\ j = 1
  /\ template = -1
  /\ filter = ""
  /\ BCR_temp = <<>> /\ BCRe_temp = <<>>
  /\ rates = NoRates
  /\ sub = NoSub
  /\ mag = <<>>
  /\ files = <<>>
  /\ report = <<>>

\* ------------------------------------------------------------ count-rate correction
\* The systematic added for the template file too.
InflateAnyFile(tmpl, n) == tmpl # 0

\* "if template and i==1": the 3% systematic is added for the science file of a
\* run that has a template.
Inflate(tmpl, n) == tmpl # 0 /\ n = 1

\* (x * 0.03) ** 2
Sq3Percent(x) == RMul(Rat(9, 10000), RSq(x))

\* The user aperture with the magnitude of the input error taken when the 3%
\* term is not added.
S3Clamped(row, tmpl, n) ==
  LET SC == I(row.SENSCORR_FACTOR)
      S3BCR == RMul(I(row.COI_SRC_RATE), SC)
      S3BCRe == IF Inflate(tmpl, n)
                THEN NpSqrt(RAdd(RSq(I(row.COI_SRC_RATE_ERR)), Sq3Percent(S3BCR)))
                ELSE Exact(RAbs(I(row.COI_SRC_RATE_ERR)))
  IN  [BCR |-> S3BCR, BCRe |-> S3BCRe]

\* S3BCR and S3BCRe of one row: the user aperture.
S3(row, tmpl, n) ==
  LET SC == I(row.SENSCORR_FACTOR)
      S3BCR == RMul(I(row.COI_SRC_RATE), SC)
      S3BCRe == IF Inflate(tmpl, n)
                THEN NpSqrt(RAdd(RSq(I(row.COI_SRC_RATE_ERR)), Sq3Percent(S3BCR)))
                ELSE Exact(I(row.COI_SRC_RATE_ERR))
  IN  [BCR |-> S3BCR, BCRe |-> S3BCRe]

\* S5BCR and S5BCRe of one row: the 5 arcsec aperture.
S5(row, tmpl, n) ==
  LET SC == I(row.SENSCORR_FACTOR)
      S5CR == RMul(I(row.RAW_STD_RATE), I(row.COI_STD_FACTOR))
      S5CRe == RMul(I(row.RAW_STD_RATE_ERR), I(row.COI_STD_FACTOR))
      S5BCR == RSub(RMul(RMul(I(row.RAW_STD_RATE), I(row.COI_STD_FACTOR)), SC),
                    RMul(RMul(I(row.COI_BKG_RATE), SC), I(row.STD_AREA)))
      bkg2 == RSq(RMul(I(row.COI_BKG_RATE_ERR), I(row.STD_AREA)))
      S5BCRe == IF Inflate(tmpl, n)
                THEN NpSqrt(RAdd(RAdd(RSq(S5CRe), Sq3Percent(S5CR)), bkg2))
                ELSE NpSqrt(RAdd(RSq(S5CRe), bkg2))
  IN  [BCR |-> S5BCR, BCRe |-> S5BCRe]

\* for BCR,BCRe,label in [[S3BCR,S3BCRe,user_ap] , [S5BCR,S5BCRe,'5_arcsec']]
Pass(n) ==
  IF n = 1 THEN [BCR |-> rates.S3BCR, BCRe |-> rates.S3BCRe, label |-> user_ap]
  ELSE [BCR |-> rates.S5BCR, BCRe |-> rates.S5BCRe, label |-> "5_arcsec"]

\* d[key] = value on a Python dict.
SetItem(d, key, value) == (key :> value) @@ d

\* ------------------------------------------------------------ template aggregation
\* np.sum(BCR/BCRe**2)/np.sum(1./BCRe**2)
WeightedMean(BCR, BCRe) ==
  NpDiv(SumSeq([n \in 1..Len(BCR) |-> NpDiv(BCR[n], SSquare(BCRe[n]))]),
        SumSeq([n \in 1..Len(BCR) |-> NpDiv(I(1), SSquare(BCRe[n]))]))

\* The error of the first template epoch alone, without the sum over epochs.
WeightedErrFirst(BCRe) ==
  NpSqrt(NpDiv(I(1), NpDiv(I(1), SSquare(BCRe[1]))))

\* np.sqrt(1./np.sum(1./BCRe**2))
WeightedErr(BCRe) ==
  NpSqrt(NpDiv(I(1), SumSeq([n \in 1..Len(BCRe) |-> NpDiv(I(1), SSquare(BCRe[n]))])))

\* ------------------------------------------------------------ magnitudes
\* mjdref+(TSTART+TSTOP)/2./86400., as whole days and a fraction of a day in [0, 1).
Mjd(row) ==
  LET s == row.TSTART + row.TSTOP
  IN  [whole |-> mjdref + (s \div 172800), frac |-> Rat(s % 172800, 172800)]

MjdLt(a, b) == a.whole < b.whole \/ (a.whole = b.whole /\ RLt(a.frac, b.frac))

\* -2.5*np.log10(x)+zp-vega for a surd x: nan when x < 0 (or nan), inf when
\* x = 0; otherwise the value is named by its argument and its offsets.
Magnitude(x, zp, vega) ==
  IF x.ssq = NaN \/ x.ssq[1] < 0 THEN [kind |-> "nan", arg |-> NaN, zp |-> 0, vega |-> 0]
  ELSE IF x.ssq[1] = 0 THEN [kind |-> "inf", arg |-> Inf, zp |-> 0, vega |-> 0]
  ELSE [kind |-> "num", arg |-> x.ssq, zp |-> zp, vega |-> vega]

\* np.sqrt(((2.5/np.log(10.))*((BCGARe[j]/BCGAR[j])))**2+ZP[filter][1]**2), named by
\* the squared relative error and the zero point error.
MagErr(BCGARe, BCGAR, zpe) ==
  [kind |-> "quad", rel2 |-> SSquare(SDivR(BCGARe, BCGAR)), zpe |-> zpe, val |-> I(0)]

\* BCGAMe=0.2
FixedErr == [kind |-> "const", rel2 |-> I(0), zpe |-> 0, val |-> Rat(1, 5)]

\* if label==user_ap: the aperture correction of the subtracted rate and error.
ApCorrect(label, BCGR, BCGRe, row) ==
  IF label = user_ap
  THEN [BCGAR |-> RMul(BCGR, I(row.AP_FACTOR)), BCGARe |-> SMulR(BCGRe, I(row.AP_FACTOR_ERR))]
  ELSE [BCGAR |-> BCGR, BCGARe |-> BCGRe]

\* Lines 364-406 for the rows dd of the science file and one aperture.
Reduce(dd, p) ==
  LET n == Len(dd)
      BCGR == [m \in 1..n |-> RSub(p.BCR[m], BCR_temp[p.label])]
      BCGRe == [m \in 1..n |->
                  NpSqrt(RAdd(SSquare(p.BCRe[m]), SSquare(BCRe_temp[p.label])))]
      ap == [m \in 1..n |-> ApCorrect(p.label, BCGR[m], BCGRe[m], dd[m])]
  IN  [mjd |-> [m \in 1..n |-> Mjd(dd[m])],
       BCGR |-> BCGR, BCGRe |-> BCGRe,
       BCGAR |-> [m \in 1..n |-> ap[m].BCGAR],
       BCGARe |-> [m \in 1..n |-> ap[m].BCGARe],
       BCGARs |-> [m \in 1..n |-> RDivS(ap[m].BCGAR, ap[m].BCGARe)],
       BCGAMl |-> [m \in 1..n |->
                     Magnitude(SMulR(ap[m].BCGARe, I(3)), ZP[filter][1], Vega_corr(filter))]]

\* The threshold test with a strict comparison.
DetectedStrict(BCGARs, det_limit) ==
  BCGARs.ssq # NaN /\ BCGARs.ssq # RSsq(I(det_limit)) /\ SGeR(BCGARs, I(det_limit))

\* if BCGARs[j]>=_det_limit
Detected(BCGARs, det_limit) == SGeR(BCGARs, I(det_limit))

\* ------------------------------------------------------------ records and report
\* The dict with template_subtracted set whatever the template.
NewRecordFlagged(row, n) ==
  [filter |-> filter,
   aperture_correction |-> I(row.AP_FACTOR),
   coincidence_loss_correction |-> I(row.COI_STD_FACTOR),
   mag_sys |-> mag_sys,
   mag_limit |-> sub.BCGAMl[n],
   template_subtracted |-> TRUE,
   mjd |-> sub.mjd[n]]

\* The dict appended at lines 410-418: mag, mag_err and upper_limit are not set yet.
NewRecord(row, n) ==
  [filter |-> filter,
   aperture_correction |-> I(row.AP_FACTOR),
   coincidence_loss_correction |-> I(row.COI_STD_FACTOR),
   mag_sys |-> mag_sys,
   mag_limit |-> sub.BCGAMl[n],
   template_subtracted |-> (template # 0),
   mjd |-> sub.mjd[n]]

\* A classification whose upper limit keeps the magnitude of the rate and its
\* propagated error.
ClassifiedFromRate(rec, n) ==
  rec @@ [upper_limit |-> ~Detected(sub.BCGARs[n], args._det_limit),
          mag |-> Magnitude(Exact(sub.BCGAR[n]), ZP[filter][1], Vega_corr(filter)),
          mag_err |-> MagErr(sub.BCGARe[n], sub.BCGAR[n], ZP[filter][2])]

\* Lines 421-436: the three keys set on the record appended last.
Classified(rec, n) ==
  IF Detected(sub.BCGARs[n], args._det_limit)
  THEN rec @@ [upper_limit |-> FALSE,
               mag |-> Magnitude(Exact(sub.BCGAR[n]), ZP[filter][1], Vega_corr(filter)),
               mag_err |-> MagErr(sub.BCGARe[n], sub.BCGAR[n], ZP[filter][2])]
  ELSE rec @@ [upper_limit |-> TRUE, mag |-> sub.BCGAMl[n], mag_err |-> FixedErr]

\* An insertion that puts a record in front of the records of equal mjd.
RECURSIVE InsertBeforeEqual(_, _)
InsertBeforeEqual(s, x) ==
  IF s = <<>> THEN <<x>>
  ELSE IF ~MjdLt(Head(s).mjd, x.mjd) THEN <<x>> \o s
  ELSE <<Head(s)>> \o InsertBeforeEqual(Tail(s), x)

\* sorted(_mag['5_arcsec'], key=lambda x: x['mjd']): Python's sort is stable, so
\* a record goes behind every record whose mjd is not greater than its own.
RECURSIVE InsertByMjd(_, _)
InsertByMjd(s, x) ==
  IF s = <<>> THEN <<x>>
  ELSE IF MjdLt(x.mjd, Head(s).mjd) THEN <<x>> \o s
  ELSE <<Head(s)>> \o InsertByMjd(Tail(s), x)

RECURSIVE SortedByMjd(_)
SortedByMjd(s) ==
  IF s = <<>> THEN <<>>
  ELSE InsertByMjd(SortedByMjd(SubSeq(s, 1, Len(s) - 1)), s[Len(s)])

\* A non-negative rational rounded to the nearest integer, ties to even.
RoundHalfEven(r) ==
  LET fl == r[1] \div r[2]
      twice == 2 * (r[1] % r[2])
  IN  IF twice < r[2] THEN fl
      ELSE IF twice > r[2] THEN fl + 1
      ELSE IF fl % 2 = 0 THEN fl ELSE fl + 1

\* '%.5f'%mjd: the whole days and the five decimals.
Fmt5Mjd(m) ==
  LET q == RoundHalfEven(RMul(m.frac, I(100000)))
  IN  IF q = 100000 THEN <<m.whole + 1, 0>> ELSE <<m.whole, q>>

\* '%.4f' of a rational: the number of ten-thousandths.
Fmt4Num(r) == [digits |-> 4, scaled |-> RoundHalfEven(RMul(r, I(10000)))]

\* '%.4f' of a magnitude or magnitude error, which the model keeps symbolic.
Fmt4(m) == [digits |-> 4, of |-> m]

\* Lines 528-542: the line printed for one record.
ReportLine(photom) ==
  [mjd |-> Fmt5Mjd(photom.mjd),
   filt |-> photom.filter,
   mag |-> IF photom.upper_limit THEN Fmt4(photom.mag_limit) ELSE Fmt4(photom.mag),
   magerr |-> IF photom.upper_limit THEN Fmt4Num(I(0)) ELSE Fmt4(photom.mag_err)]

\* The list written after the sort instead of before it.
WrittenSorted(m, label) == SortedByMjd(m[label])

\* json.dumps(_mag[label]) at lines 520 and 523: the list as it is when the file
\* is written.
Written(m, label) == m[label]

\* ------------------------------------------------------------ actions
\* The filter selection of the command line.
SortFilters ==
  /\ pc = "start"
  /\ \E fl \in FilterRequests :
       LET r == sort_filters(fl)
       IN  /\ filt_list' = fl
           /\ filters' = r.out
           /\ exc' = r.exc
           /\ pc' = IF r.exc = "none" THEN "begin" ELSE "aborted"
  /\ UNCHANGED <<args, i, k, j, template, filter, BCR_temp, BCRe_temp, rates, sub,
                 mag, files, report>>

\* extract_photometry, lines 276-292.
Begin ==
  /\ pc = "begin"
  /\ template' = IF args._templ_file.none THEN -1 ELSE 1
  /\ mag' = [l \in Labels |-> <<>>]
  /\ BCR_temp' = <<>>
  /\ BCRe_temp' = <<>>
  /\ i' = 0
  /\ pc' = "file"
  /\ UNCHANGED <<args, filt_list, filters, exc, k, j, filter, rates, sub, files, report>>

\* The step after file i: the next file, or "return mag".
AfterFile(n) == IF n = 0 THEN "file" ELSE "returned"

\* Lines 295-300: no file, nothing will be subtracted.
NoTemplate ==
  /\ pc = "file"
  /\ FileAt(i).none
  /\ BCR_temp' = [l \in Labels |-> I(0)]
  /\ BCRe_temp' = [l \in Labels |-> Exact(I(0))]
  /\ template' = 0
  /\ i' = i + 1
  /\ pc' = AfterFile(i)
  /\ UNCHANGED <<args, filt_list, filters, exc, k, j, filter, rates, sub, mag, files, report>>

\* Lines 302-326: the corrected count rates of every row of file i.
CorrectRates ==
  /\ pc = "file"
  /\ ~FileAt(i).none
  /\ LET dd == FileAt(i).rows
         n == Len(dd)
     IN  /\ filter' = FileAt(i).FILTER
         /\ rates' = [S3BCR |-> [m \in 1..n |-> S3(dd[m], template, i).BCR],
                      S3BCRe |-> [m \in 1..n |-> S3(dd[m], template, i).BCRe],
                      S5BCR |-> [m \in 1..n |-> S5(dd[m], template, i).BCR],
                      S5BCRe |-> [m \in 1..n |-> S5(dd[m], template, i).BCRe]]
  /\ k' = 1
  /\ pc' = "aperture"
  /\ UNCHANGED <<args, filt_list, filters, exc, i, j, template, BCR_temp, BCRe_temp, sub, mag,
                 files, report>>

\* Lines 346-360: the weighted average of the template rates of one aperture.
AggregateTemplate ==
  /\ pc = "aperture"
  /\ i = 0
  /\ LET p == Pass(k)
     IN  /\ BCR_temp' = SetItem(BCR_temp, p.label, WeightedMean(p.BCR, p.BCRe))
         /\ BCRe_temp' = SetItem(BCRe_temp, p.label, WeightedErr(p.BCRe))
  /\ IF k = 1
     THEN k' = 2 /\ pc' = "aperture" /\ i' = i
     ELSE k' = 1 /\ pc' = AfterFile(i) /\ i' = i + 1
  /\ UNCHANGED <<args, filt_list, filters, exc, j, template, filter, rates, sub, mag, files, report>>

\* Lines 362-406: template subtraction, aperture correction, significance and
\* limit of one aperture.  ZP[filter] raises KeyError for a filter the catalog
\* does not hold (line 388 with a template, line 406 without).
ReduceAperture ==
  /\ pc = "aperture"
  /\ i = 1
  /\ IF filter \in DOMAIN ZP
     THEN /\ sub' = Reduce(FileAt(i).rows, Pass(k))
          /\ j' = 1
          /\ pc' = "record"
          /\ exc' = exc
     ELSE /\ exc' = "KeyError"
          /\ pc' = "aborted"
          /\ UNCHANGED <<sub, j>>
  /\ UNCHANGED <<args, filt_list, filters, i, k, template, filter, BCR_temp, BCRe_temp, rates,
                 mag, files, report>>

\* Lines 410-418: mag[label].append({...}).
AppendRecord ==
  /\ pc = "record"
  /\ LET label == Pass(k).label
     IN  mag' = [mag EXCEPT ![label] = Append(@, NewRecord(FileAt(i).rows[j], j))]
  /\ pc' = "classify"
  /\ UNCHANGED <<args, filt_list, filters, exc, i, k, j, template, filter, BCR_temp, BCRe_temp,
                 rates, sub, files, report>>

\* Lines 420-437: detection or upper limit, written into mag[label][-1].
Classify ==
  /\ pc = "classify"
  /\ LET label == Pass(k).label
         last == Len(mag[label])
     IN  mag' = [mag EXCEPT ![label][last] = Classified(@, j)]
  /\ IF j < Len(FileAt(i).rows)
     THEN j' = j + 1 /\ pc' = "record" /\ k' = k /\ i' = i
     ELSE /\ j' = 1
          /\ IF k = 1
             THEN k' = 2 /\ pc' = "aperture" /\ i' = i
             ELSE k' = 1 /\ pc' = AfterFile(i) /\ i' = i + 1
  /\ UNCHANGED <<args, filt_list, filters, exc, template, filter, BCR_temp, BCRe_temp, rates, sub,
                 files, report>>

\* output_mags(_mag, _ap_size), lines 516-542: the two JSON files are written,
\* then the 5 arcsec list is sorted and printed.
OutputMags ==
  /\ pc = "returned"
  /\ files' = SetItem(SetItem(files, args._ap_size \o "_arcsec_photometry.json",
                              Written(mag, user_ap)),
                      "5_arcsec_photometry.json", Written(mag, "5_arcsec"))
  /\ mag' = [mag EXCEPT !["5_arcsec"] = SortedByMjd(@)]
  /\ report' = [n \in 1..Len(mag["5_arcsec"]) |-> ReportLine(SortedByMjd(mag["5_arcsec"])[n])]
  /\ pc' = "done"
  /\ UNCHANGED <<args, filt_list, filters, exc, i, k, j, template, filter, BCR_temp, BCRe_temp,
                 rates, sub>>

Next ==
  \/ SortFilters
  \/ Begin
  \/ NoTemplate
  \/ CorrectRates
  \/ AggregateTemplate
  \/ ReduceAperture
  \/ AppendRecord
  \/ Classify
  \/ OutputMags

Spec == Init /\ [][Next]_vars

\* ------------------------------------------------------------ properties
\* The rows of the science table.
SciRows == args._phot_file.rows

\* An aperture pass over the science table has just ended: its locals are still
\* in sub and its records are the last Len(SciRows) records of its list.
PassJustEnded == (pc = "aperture" /\ i = 1 /\ k = 2) \/ pc = "returned"

EndedLabel == IF pc = "returned" THEN "5_arcsec" ELSE user_ap

\* The record of row m emitted by the pass that has just ended.
PassRecord(m) == mag[EndedLabel][Len(mag[EndedLabel]) - Len(SciRows) + m]

\* significance = ap_rate / ap_err compared with the threshold d without
\* dividing, for ap_err > 0: ap_rate >= d * ap_err and ap_rate < d * ap_err.
SigAtLeast(m, d) ==
  LET r == sub.BCGAR[m]
      e2 == SSquare(sub.BCGARe[m])
      d2e2 == RMul(I(d * d), e2)
  IN  IF d >= 0 THEN r[1] >= 0 /\ RLe(d2e2, RSq(r))
      ELSE r[1] >= 0 \/ RLe(RSq(r), d2e2)

SigBelow(m, d) ==
  LET r == sub.BCGAR[m]
      e2 == SSquare(sub.BCGARe[m])
      d2e2 == RMul(I(d * d), e2)
  IN  IF d >= 0 THEN r[1] < 0 \/ RLt(RSq(r), d2e2)
      ELSE r[1] < 0 /\ RLt(d2e2, RSq(r))

\* C1: every record emitted by the science reduction has upper_limit false
\* exactly when ap_rate / ap_err >= detection_threshold and true exactly when
\* it is strictly below; the errors of the model's tables are nonzero, so
\* ap_err > 0 and the significance is a number.
C1_InclusiveThreshold ==
  PassJustEnded =>
    \A m \in 1..Len(SciRows) :
      /\ sub.BCGARe[m].ssq[1] > 0 /\ IsFinite(sub.BCGARe[m].ssq)
      /\ PassRecord(m).upper_limit = FALSE <=> SigAtLeast(m, args._det_limit)
      /\ PassRecord(m).upper_limit = TRUE <=> SigBelow(m, args._det_limit)

\* A record whose significance equals a positive threshold exactly was emitted
\* as a detection.
C1_Witness ==
  /\ PassJustEnded
  /\ \E m \in 1..Len(SciRows) :
       /\ args._det_limit > 0
       /\ sub.BCGAR[m][1] > 0
       /\ RSq(sub.BCGAR[m]) = RMul(I(args._det_limit * args._det_limit), SSquare(sub.BCGARe[m]))
       /\ PassRecord(m).upper_limit = FALSE

\* The records of every list of mag that have been classified.
Classified3Keys(rec) == {"upper_limit", "mag", "mag_err"} \subseteq DOMAIN rec

\* C2 (as claimed): a science epoch that reaches the detection branch with
\* ap_rate <= 0 ends the run with NonPhysicalFluxError, and no record holds a
\* magnitude computed from the logarithm of a non-positive rate.
C2_NonPhysicalFluxRaises ==
  /\ \A l \in DOMAIN mag : \A n \in 1..Len(mag[l]) :
       (Classified3Keys(mag[l][n]) /\ ~mag[l][n].upper_limit) => mag[l][n].mag.kind = "num"
  /\ (PassJustEnded /\ \E m \in 1..Len(SciRows) :
         SigAtLeast(m, args._det_limit) /\ sub.BCGAR[m][1] <= 0)
       => exc = "NonPhysicalFluxError"

\* A record of the written catalog is complete.
Complete(rec) ==
  DOMAIN rec = {"filter", "aperture_correction", "coincidence_loss_correction", "mag_sys",
                "mag_limit", "template_subtracted", "mjd", "upper_limit", "mag", "mag_err"}

\* C3 (as claimed): an epoch whose processing is in error (a detection of a
\* non-positive rate, C2) is excluded from the written catalog while the run goes
\* on to write the records of the other epochs, all of them complete.
C3_OffendingEpochExcluded ==
  pc = "done" =>
    \A name \in DOMAIN files : \A n \in 1..Len(files[name]) :
      /\ Complete(files[name][n])
      /\ ~(files[name][n].upper_limit = FALSE /\ files[name][n].mag.kind # "num")

\* A list of records is in ascending order of mjd.
IsAscending(recs) == \A q \in 1..(Len(recs) - 1) : ~MjdLt(recs[q + 1].mjd, recs[q].mjd)

\* C4 (as claimed): when output_mags has serialized the two sequences, each of
\* them is ordered by mjd ascending, whatever the order of the input table.
C4_SerializedAscending ==
  pc = "done" => \A name \in DOMAIN files : IsAscending(files[name])

\* C4 (amended): each serialized sequence holds the epochs in the order of the
\* input table, one run of the table per aperture pass that fed it; what is
\* sorted by mjd is the in-memory 5 arcsec list, after the files are written.
C4_SerializedInInputOrder ==
  pc = "done" =>
    /\ \A name \in DOMAIN files :
         /\ Len(files[name]) >= Len(SciRows)
         /\ \A q \in 1..Len(files[name]) :
              files[name][q].mjd = Mjd(SciRows[((q - 1) % Len(SciRows)) + 1])
    /\ IsAscending(mag["5_arcsec"])

\* A catalog was written from a table that is not in chronological order.
C4_Witness ==
  /\ pc = "done"
  /\ \E name \in DOMAIN files : ~IsAscending(files[name])
  /\ \E q \in 1..(Len(SciRows) - 1) : MjdLt(Mjd(SciRows[q + 1]), Mjd(SciRows[q]))

\* C5 (as claimed): for every aperture_size, "5" included, the reduction returns
\* two sequences, each with exactly one record per science epoch.
C5_OneRecordPerEpochAndAperture ==
  pc \in {"returned", "done"} =>
    /\ Cardinality(DOMAIN mag) = 2
    /\ \A l \in DOMAIN mag : Len(mag[l]) = Len(SciRows)

\* C6 (as claimed): the aperture correction is applied to the user aperture
\* data only; for the 5 arcsec reference data (the second pass), for every
\* aperture_size, ap_rate = sub_rate and ap_err = sub_err.
C6_ReferenceApertureUncorrected ==
  pc \in {"record", "classify"} =>
    \A m \in 1..Len(SciRows) :
      IF k = 2
      THEN sub.BCGAR[m] = sub.BCGR[m] /\ sub.BCGARe[m] = sub.BCGRe[m]
      ELSE /\ sub.BCGAR[m] = RMul(sub.BCGR[m], I(SciRows[m].AP_FACTOR))
           /\ SSquare(sub.BCGARe[m]) =
                RMul(SSquare(sub.BCGRe[m]), RSq(I(SciRows[m].AP_FACTOR_ERR)))

Supported(f) == f \in Range(full_filter_list)

\* C7: without a template file the reduction raises nothing of its own, the
\* reference rate and error of both apertures are 0 and every record has
\* template_subtracted false; with a template every record has it true.
C7_TemplateSubtractedFlag ==
  /\ (args._templ_file.none /\ i >= 1) =>
       /\ template = 0
       /\ \A l \in Labels : BCR_temp[l] = I(0) /\ BCRe_temp[l].ssq = I(0)
  /\ (args._templ_file.none /\ Supported(args._phot_file.FILTER)) => exc # "KeyError"
  /\ \A l \in DOMAIN mag : \A n \in 1..Len(mag[l]) :
       mag[l][n].template_subtracted = ~args._templ_file.none
  /\ \A name \in DOMAIN files : \A n \in 1..Len(files[name]) :
       files[name][n].template_subtracted = ~args._templ_file.none

\* A run without template wrote its catalog, and a run with one did.
C7_Witness ==
  /\ pc = "done"
  /\ exc = "none"
  /\ args._templ_file.none
  /\ \A name \in DOMAIN files : Len(files[name]) >= Len(SciRows)
  /\ \E l \in DOMAIN mag : \E n \in 1..Len(mag[l]) : ~mag[l][n].template_subtracted

\* C8: the error of a corrected rate holds the 3% term, in both apertures,
\* exactly for the rows of the science file of a run with a template; a template
\* row, and a science row of a run without template, has the plain error.
C8_SystematicOnlyWhenSubtracting ==
  pc \in {"aperture", "record", "classify"} =>
    \A m \in 1..Len(FileAt(i).rows) :
      LET row == FileAt(i).rows[m]
          subtracting == i = 1 /\ ~args._templ_file.none
          rate3 == I(row.COI_SRC_RATE * row.SENSCORR_FACTOR)
          rate5 == I(row.RAW_STD_RATE * row.COI_STD_FACTOR)
          plain3 == I(row.COI_SRC_RATE_ERR * row.COI_SRC_RATE_ERR)
          plain5 == I((row.RAW_STD_RATE_ERR * row.COI_STD_FACTOR) * (row.RAW_STD_RATE_ERR * row.COI_STD_FACTOR)
                      + (row.COI_BKG_RATE_ERR * row.STD_AREA) * (row.COI_BKG_RATE_ERR * row.STD_AREA))
          sys3 == Rat(9 * rate3[1] * rate3[1], 10000)
          sys5 == Rat(9 * rate5[1] * rate5[1], 10000)
      IN  IF subtracting
          THEN /\ SSquare(rates.S3BCRe[m]) = RAdd(plain3, sys3)
               /\ SSquare(rates.S5BCRe[m]) = RAdd(plain5, sys5)
          ELSE /\ rates.S3BCRe[m] = Exact(I(row.COI_SRC_RATE_ERR))
               /\ SSquare(rates.S5BCRe[m]) = plain5

\* The rates of a science file are corrected in a run with a template, and one
\* of them is not zero, so that the 3% term is not zero.
C8_Witness ==
  /\ pc = "aperture" /\ i = 1 /\ ~args._templ_file.none
  /\ \E m \in 1..Len(SciRows) :
       rates.S3BCR[m] # I(0) /\ SSquare(rates.S3BCRe[m]) # RSq(I(SciRows[m].COI_SRC_RATE_ERR))

\* The 5 arcsec list as it was when output_mags was called.
Unsorted5 == files["5_arcsec_photometry.json"]

\* The place of record idx in the report: behind the records of smaller mjd and
\* the earlier records of equal mjd.
Rank(idx) ==
  Cardinality({m \in 1..Len(Unsorted5) :
                 \/ MjdLt(Unsorted5[m].mjd, Unsorted5[idx].mjd)
                 \/ (Unsorted5[m].mjd = Unsorted5[idx].mjd /\ m <= idx)})

\* C9: the report has one line per record of the 5 arcsec sequence, in
\* ascending mjd with records of equal mjd in their input order, and the error
\* column is 0.0 exactly for an upper limit and the record's mag_err otherwise.
C9_ReportStableAndErrorColumn ==
  pc = "done" =>
    /\ Len(report) = Len(Unsorted5)
    /\ \A idx \in 1..Len(Unsorted5) :
         LET rec == Unsorted5[idx]
             line == report[Rank(idx)]
         IN  /\ line.mjd = Fmt5Mjd(rec.mjd)
             /\ line.filt = rec.filter
             /\ line.magerr = Fmt4Num(I(0)) <=> rec.upper_limit
             /\ ~rec.upper_limit => line.magerr = Fmt4(rec.mag_err) /\ line.mag = Fmt4(rec.mag)
             /\ rec.upper_limit => line.mag = Fmt4(rec.mag_limit)

\* A report was printed from a list holding two different records of equal mjd,
\* a detection and an upper limit, and an earlier record of greater mjd.
C9_Witness ==
  /\ pc = "done"
  /\ \E a, b \in 1..Len(Unsorted5) :
       /\ a < b
       /\ Unsorted5[a].mjd = Unsorted5[b].mjd
       /\ Unsorted5[a].upper_limit # Unsorted5[b].upper_limit
  /\ \E a, b \in 1..Len(Unsorted5) : a < b /\ MjdLt(Unsorted5[b].mjd, Unsorted5[a].mjd)

Keywords == {<<"ALL">>, <<"OPT">>, <<"UV">>}

\* C10 (as claimed): an unsupported filter name fails: naming one in the filter
\* list raises instead of skipping it, and a table of an unsupported filter
\* raises without a record being emitted.
C10_UnsupportedFilterRaises ==
  /\ (pc # "start" /\ filt_list \notin Keywords
        /\ \E n \in 1..Len(filt_list) : ~Supported(Upper(filt_list[n])))
       => exc = "FilterError"
  /\ ~Supported(args._phot_file.FILTER) =>
       /\ pc \notin {"record", "classify", "returned", "done"}
       /\ \A l \in DOMAIN mag : mag[l] = <<>>

\* C10 (amended): sort_filters skips an unsupported name and raises FilterError
\* only when no name of the list is supported; a science table of an
\* unsupported filter ends the reduction with the KeyError of the zero point
\* lookup before any record is emitted, so no record has an unsupported filter.
C10_UnsupportedFilterSkippedOrKeyError ==
  /\ (pc # "start" /\ filt_list \notin Keywords) =>
       /\ exc = "FilterError" <=> \A n \in 1..Len(filt_list) : ~Supported(Upper(filt_list[n]))
       /\ Range(filters) = {Upper(filt_list[n]) : n \in 1..Len(filt_list)} \cap Range(full_filter_list)
  /\ ~Supported(args._phot_file.FILTER) =>
       /\ pc \notin {"record", "classify", "returned", "done"}
       /\ \A l \in DOMAIN mag : mag[l] = <<>>
  /\ exc = "KeyError" => pc = "aborted" /\ ~Supported(args._phot_file.FILTER)
  /\ \A l \in DOMAIN mag : \A n \in 1..Len(mag[l]) : Supported(mag[l][n].filter)

\* The unsupported name of a list was skipped, and the reduction of a table of
\* an unsupported filter then ended with KeyError.
C10_Witness ==
  /\ filt_list = <<"b", "white">>
  /\ filters = <<"B">>
  /\ pc = "aborted"
  /\ exc = "KeyError"
  /\ \A l \in DOMAIN mag : mag[l] = <<>>

\* The corrected rates of file i are in rates.
RatesCorrected == pc \in {"aperture", "record", "classify"}

\* C11 (as claimed): the error the count-rate correction outputs is
\* non-negative for every row and both apertures in every mode, whatever the sign
\* of the input error and rate.
C11_CorrectedErrorNonNegative ==
  RatesCorrected =>
    \A m \in 1..Len(FileAt(i).rows) :
      rates.S3BCRe[m].ssq[1] >= 0 /\ rates.S5BCRe[m].ssq[1] >= 0

\* C11 (amended): the 5 arcsec error is non-negative in every mode, and so is
\* the user aperture error of a science row of a run with a template; the user
\* aperture error of a template row, and of a science row of a run without
\* template, is the input COI_SRC_RATE_ERR itself and has its sign.
C11_CorrectedErrorSign ==
  RatesCorrected =>
    \A m \in 1..Len(FileAt(i).rows) :
      /\ rates.S5BCRe[m].ssq[1] >= 0
      /\ IF i = 1 /\ ~args._templ_file.none
         THEN rates.S3BCRe[m].ssq[1] >= 0
         ELSE Sign(rates.S3BCRe[m].ssq[1]) = Sign(FileAt(i).rows[m].COI_SRC_RATE_ERR)

\* A science row of negative input error was corrected in a run without
\* template, and one in a run with a template.
C11_Witness ==
  /\ RatesCorrected
  /\ i = 1
  /\ \E m \in 1..Len(SciRows) :
       /\ SciRows[m].COI_SRC_RATE_ERR < 0
       /\ \/ args._templ_file.none /\ rates.S3BCRe[m].ssq[1] < 0
          \/ ~args._templ_file.none /\ rates.S3BCRe[m].ssq[1] > 0

\* Pass n of the template file has just been aggregated: rates still holds the
\* template file and the reference of the pass's label has just been written.
Aggregated(n) ==
  /\ ~args._templ_file.none
  /\ IF n = 1 THEN pc = "aperture" /\ i = 0 /\ k = 2
              ELSE pc = "file" /\ i = 1

\* Every epoch of the pass has the same (rate, err) pair.
IdenticalPairs(p) ==
  \A m \in 1..Len(p.BCR) : p.BCR[m] = p.BCR[1] /\ p.BCRe[m] = p.BCRe[1]

\* C12: aggregating N >= 1 identical (rate, err) pairs gives ref = rate and
\* N * ref_err^2 = err^2 with ref_err of the sign of err (ref_err = err/sqrt(N));
\* for N = 1 the reference is the pair itself.
C12_IdenticalPairsAggregate ==
  \A n \in {1, 2} :
    (Aggregated(n) /\ IdenticalPairs(Pass(n))) =>
      LET p == Pass(n)
          N == Len(p.BCR)
      IN  /\ BCR_temp[p.label] = p.BCR[1]
          /\ RMul(I(N), BCRe_temp[p.label].ssq) = p.BCRe[1].ssq
          /\ (N = 1 => BCRe_temp[p.label] = p.BCRe[1])

\* Two identical template epochs aggregated, and a single one aggregated.
C12_Witness ==
  /\ Aggregated(2)
  /\ IdenticalPairs(Pass(2))
  /\ Len(Pass(2).BCR) = 2
  /\ RMul(I(2), BCRe_temp["5_arcsec"].ssq) = rates.S5BCRe[1].ssq
  /\ BCRe_temp["5_arcsec"] # rates.S5BCRe[1]

C12_WitnessSingle ==
  /\ Aggregated(1)
  /\ Len(Pass(1).BCR) = 1
  /\ BCR_temp[user_ap] = rates.S3BCR[1]
  /\ BCRe_temp[user_ap] = rates.S3BCRe[1]

\* A step keeps every template reference that is already written.
ReferencesKept ==
  \A l \in DOMAIN BCR_temp :
    /\ l \in DOMAIN BCR_temp'
    /\ BCR_temp'[l] = BCR_temp[l]
    /\ BCRe_temp'[l] = BCRe_temp[l]

\* The science file is being reduced.
ReducingScience == i = 1 /\ pc \in {"aperture", "record", "classify"}

\* C13: the template reference (rate and error) of each aperture is written
\* once, before any science epoch is reduced, and never modified afterwards:
\* no step changes a reference that is written, and while the science file is
\* reduced both apertures have their reference.
C13_ReferenceWrittenOnce ==
  [][/\ ReferencesKept
     /\ (ReducingScience' => Labels \subseteq DOMAIN BCR_temp')]_vars

\* The same property for a user aperture other than 5 arcsec, and the part of
\* it about the science epochs for every aperture: both hold.
C13_WrittenOnceDistinctLabels ==
  [][user_ap # "5_arcsec" =>
       /\ ReferencesKept
       /\ (ReducingScience' => Labels \subseteq DOMAIN BCR_temp')]_vars

C13_ScienceKeepsReferences ==
  [][(i = 1 \/ ReducingScience') =>
       /\ UNCHANGED <<BCR_temp, BCRe_temp>>
       /\ Labels \subseteq DOMAIN BCR_temp]_vars

\* The records that carry their classification: every record of the returned
\* lists but the one appended last and not classified yet.
Emitted(label) ==
  {mag[label][m] : m \in {x \in 1..Len(mag[label]) : "upper_limit" \in DOMAIN mag[label][x]}}

\* C14: every emitted record that is an upper limit has mag equal to its own
\* mag_limit and mag_err equal to 0.2, in the returned lists and in the written
\* files, and the magnitude of its report line is the '%.4f' of its mag field.
C14_UpperLimitMagIsLimit ==
  /\ \A label \in DOMAIN mag : \A rec \in Emitted(label) :
        rec.upper_limit => rec.mag = rec.mag_limit /\ rec.mag_err = FixedErr
  /\ \A name \in DOMAIN files : \A m \in 1..Len(files[name]) :
        files[name][m].upper_limit =>
          /\ files[name][m].mag = files[name][m].mag_limit
          /\ files[name][m].mag_err.val = Rat(1, 5)
  /\ pc = "done" =>
        \A m \in 1..Len(report) :
          mag["5_arcsec"][m].upper_limit => report[m].mag = Fmt4(mag["5_arcsec"][m].mag)

\* A report printed, after the files were written, for a list that holds an
\* upper limit with a finite limit and the fixed error.
C14_Witness ==
  /\ pc = "done"
  /\ \E m \in 1..Len(report) :
       LET rec == mag["5_arcsec"][m]
       IN  /\ rec.upper_limit
           /\ rec.mag.kind = "num"
           /\ rec.mag_err.kind = "const"
           /\ report[m].mag = Fmt4(rec.mag)
           /\ files["5_arcsec_photometry.json"] # <<>>

====
